---- MODULE Spec2Model ----
(***************************************************************************)
(* A model of AuthManager (src/src/auth.ts): the credential pool, the      *)
(* exhaustion tracker kept in the key-value store, the rotation policy,    *)
(* the authentication cycle and the two upstream call wrappers.            *)
(*                                                                         *)
(* Time is the value of Date.now() in milliseconds.  Strings kept in the   *)
(* key-value store are sequences of one-character strings, so that         *)
(* Number.toString and parseInt are computed, not assumed.                 *)
(***************************************************************************)
EXTENDS Integers, Sequences, FiniteSets, TLC

(***************************************************************************)
(* Bounds of the model.                                                    *)
(***************************************************************************)
\* Number of GCP_SERVICE_ACCOUNT_<i> slots looked at (100 in the code).
NumSlots == 3
\* The clock advances in steps of TickMs, at most MaxTicks times.
TickMs == 60000
MaxTicks == 3

(***************************************************************************)
(* Program constants.                                                      *)
(***************************************************************************)
EXHAUSTION_SAFETY_BUFFER == 120000

\* JavaScript's NaN (parseInt of a string with no leading digits): a number
\* outside every range the model reaches; the Js* operators give it NaN's
\* arithmetic.
NaN == -999999999

(***************************************************************************)
(* JavaScript numbers and strings.                                         *)
(***************************************************************************)
Digits == <<"0", "1", "2", "3", "4", "5", "6", "7", "8", "9">>

DigitValues == [ch \in {Digits[d] : d \in 1..10} |->
                   (CHOOSE d \in 1..10 : Digits[d] = ch) - 1]

IsDigit(ch) == ch \in DOMAIN DigitValues

DigitVal(ch) == DigitValues[ch]

RECURSIVE NatToString(_)
NatToString(n) ==
    IF n < 10 THEN <<Digits[n + 1]>>
    ELSE NatToString(n \div 10) \o <<Digits[(n % 10) + 1]>>

\* Number.prototype.toString() of an integer or NaN.
NumToString(n) ==
    IF n = NaN THEN <<"N", "a", "N">>
    ELSE IF n < 0 THEN <<"-">> \o NatToString(-n)
    ELSE NatToString(n)

\* The value of the longest prefix of digits of s from position i on; NaN when
\* there is none.
RECURSIVE ParseDigits(_, _, _)
ParseDigits(s, i, acc) ==
    IF i <= Len(s) /\ IsDigit(s[i])
    THEN ParseDigits(s, i + 1, (IF acc = NaN THEN 0 ELSE acc) * 10 + DigitVal(s[i]))
    ELSE acc

\* parseInt(s, 10): an optional sign, then the longest prefix of digits.
ParseInt(s) ==
    LET signed == Len(s) > 0 /\ s[1] \in {"-", "+"}
        mag    == ParseDigits(s, IF signed THEN 2 ELSE 1, NaN)
    IN  IF mag = NaN THEN NaN
        ELSE IF signed /\ s[1] = "-" THEN -mag ELSE mag

\* Math.min(a, b)
JsMin(a, b) == IF a = NaN \/ b = NaN THEN NaN ELSE IF a < b THEN a ELSE b

\* a >= b and a < b: false when either side is NaN
JsGe(a, b) == a # NaN /\ b # NaN /\ a >= b
JsLt(a, b) == a # NaN /\ b # NaN /\ a < b

\* a + b
JsAdd(a, b) == IF a = NaN \/ b = NaN THEN NaN ELSE a + b

(***************************************************************************)
(* The state.                                                              *)
(***************************************************************************)
\* The AuthManager instances: one per request in flight (spec section 5).
Procs == {1, 2}

\* this.accessToken = null; a token is <<"embedded", id>> or <<"refreshed", k>>.
Null == <<"null">>

VARIABLES
    now,          \* Date.now()
    env,          \* env.GCP_SERVICE_ACCOUNT_<i>: <<>> is unset or "", <<c>> holds credential c
    kvIndex,      \* the store's entry under KV_CREDS_INDEX: its domain is empty when absent
    kvExhausted,  \* the store's entries exhausted_until_<index>, by index
    kvToken,      \* the store's entries <KV_TOKEN_KEY>_<hash>, by hash
    credentials,  \* this.credentials of each instance
    credsIndex,   \* this.credsIndex
    credsHash,    \* this.credsHash
    accessToken,  \* this.accessToken
    pc,           \* where each instance's rotateCredentials call stands
    frame,        \* the locals of that call
    last,         \* the operation that ran last, its arguments and what it returned
    call,         \* the initializeAuth, callEndpoint or callEndpointWithRetry call under way
    issued        \* how many access tokens the identity provider has issued

vars == <<now, env, kvIndex, kvExhausted, kvToken, credentials, credsIndex,
          credsHash, accessToken, pc, frame, last, call, issued>>

\* Spec section 6 names the cursor's key creds_index; config.ts sets it.
KV_CREDS_INDEX == "creds_index"

(***************************************************************************)
(* The key-value store: get, put, delete on one family of keys.            *)
(***************************************************************************)
KvHas(store, key) == key \in DOMAIN store

KvPut(store, key, value) ==
    [k \in DOMAIN store \cup {key} |-> IF k = key THEN value ELSE store[k]]

KvDelete(store, key) == [k \in DOMAIN store \ {key} |-> store[k]]

(***************************************************************************)
(* The exhaustion tracker.                                                 *)
(***************************************************************************)
\* Mutant: the safety buffer is left out.
MarkPut_NoBuffer(store, index, resetMs) == KvPut(store, index, NumToString(resetMs))

\* markCredentialExhausted: resetMs is new Date(resetIso).getTime().
MarkPut(store, index, resetMs) ==
    KvPut(store, index, NumToString(resetMs + EXHAUSTION_SAFETY_BUFFER))

\* Mutant: still exhausted at the instant until is reached (now <= until).
IsExhaustedRead_Inclusive(store, index, t) ==
    IF ~KvHas(store, index) \/ store[index] = <<>>
    THEN [found |-> FALSE, until |-> 0, exhausted |-> FALSE, cleanup |-> FALSE]
    ELSE LET until     == ParseInt(store[index])
             exhausted == ~JsLt(until, t)
         IN  [found |-> TRUE, until |-> until, exhausted |-> exhausted,
              cleanup |-> ~exhausted]

\* isCredentialExhausted up to its delete: whether a value was found, the
\* until parsed from it, what is returned, and whether the key is deleted next.
IsExhaustedRead(store, index, t) ==
    IF ~KvHas(store, index) \/ store[index] = <<>>
    THEN [found |-> FALSE, until |-> 0, exhausted |-> FALSE, cleanup |-> FALSE]
    ELSE LET until     == ParseInt(store[index])
             exhausted == JsLt(t, until)
         IN  [found |-> TRUE, until |-> until, exhausted |-> exhausted,
              cleanup |-> ~exhausted]

\* isCredentialExhausted run to its end with nothing in between.
IsCredentialExhausted(store, index, t) ==
    LET read == IsExhaustedRead(store, index, t)
    IN  [read |-> read, store |-> IF read.cleanup THEN KvDelete(store, index) ELSE store]

(***************************************************************************)
(* The rotation policy.                                                    *)
(***************************************************************************)
\* Mutant: wraps one index late (next >= total).
ScanAdvance_WrapsLate(next, total) == IF JsGe(next, total) THEN 0 ELSE JsAdd(next, 1)

\* Mutant: never wraps back to 0.
ScanAdvance_NoWrap(next, total) == JsAdd(next, 1)

\* Mutant: stays on the index it was given.
ScanAdvance_Stuck(next, total) == next

\* next = next >= total - 1 ? 0 : next + 1
ScanAdvance(next, total) == IF JsGe(next, total - 1) THEN 0 ELSE JsAdd(next, 1)

\* getNextViableCredentialIndex run to its end with nothing in between: the
\* index returned, the store it leaves and the indices it checked, in order.
RECURSIVE ScanLoop(_, _, _, _, _, _)
ScanLoop(store, t, next, attempts, total, visited) ==
    IF attempts < total
    THEN LET n == ScanAdvance(next, total)
             r == IsCredentialExhausted(store, n, t)
         IN  IF ~r.read.exhausted
             THEN [index |-> n, store |-> r.store, visited |-> Append(visited, n)]
             ELSE ScanLoop(r.store, t, n, attempts + 1, total, Append(visited, n))
    ELSE [index |-> next, store |-> store, visited |-> visited]

\* Mutant: the loop makes one attempt fewer.
GetNextViable_OneShort(store, t, currentIndex, total) ==
    ScanLoop(store, t, currentIndex, 1, total, <<>>)

\* Mutant: the scan starts on the current index instead of the one after it.
GetNextViable_FromCurrent(store, t, currentIndex, total) ==
    ScanLoop(store, t, currentIndex - 1, 0, total, <<>>)

GetNextViableCredentialIndex(store, t, currentIndex, total) ==
    ScanLoop(store, t, currentIndex, 0, total, <<>>)

(***************************************************************************)
(* rotateCredentials, piece by piece.                                      *)
(***************************************************************************)
\* Array.from({length: 100}, i => env[GCP_SERVICE_ACCOUNT_<i>] ?? "")
\*      .filter(s => s.length > 0)
RECURSIVE LoadFrom(_, _)
LoadFrom(e, i) ==
    IF i > Len(e) THEN <<>>
    ELSE (IF Len(e[i]) > 0 THEN <<e[i][1]>> ELSE <<>>) \o LoadFrom(e, i + 1)

LoadCredentials(e) == LoadFrom(e, 1)

\* await KV.get(KV_CREDS_INDEX).catch(() => "0"), then ?? "0"
SavedIndexStr(store, readOk) ==
    IF readOk /\ KvHas(store, KV_CREDS_INDEX) THEN store[KV_CREDS_INDEX] ELSE <<"0">>

\* Math.min(parseInt(savedIndexStr ?? "0", 10), this.credentials.length - 1)
ClampIndex(savedIndexStr, total) == JsMin(ParseInt(savedIndexStr), total - 1)

\* reason === "exhausted" && resetIso
MarksCurrent(reason, hasReset) == reason = "exhausted" /\ hasReset

NoFrame == [reason |-> "normal", hasReset |-> FALSE, resetMs |-> 0,
            next |-> 0, attempts |-> 0]

\* last: op is the operation, proc the instance it ran on, arg the index it was called on (for a rotation,
\* the current index it read), index and flag what it returned, found and
\* until what isCredentialExhausted read, ok whether it returned normally.
NoOp == [op |-> "none", proc |-> 0, arg |-> 0, reason |-> "normal", hasReset |-> FALSE,
         resetMs |-> 0, index |-> 0, flag |-> FALSE, found |-> FALSE,
         until |-> 0, ok |-> TRUE]

\* The whole of rotateCredentials with nothing in between: the fields and the
\* store entries it leaves.
RotateCredentials(creds0, index0, exhausted0, t, reason, hasReset, resetMs, readOk) ==
    LET creds  == IF creds0 = <<>> THEN LoadCredentials(env) ELSE creds0
        total  == Len(creds)
        cur    == ClampIndex(SavedIndexStr(index0, readOk), total)
        marked == IF MarksCurrent(reason, hasReset)
                  THEN MarkPut(exhausted0, cur, resetMs) ELSE exhausted0
        scan   == GetNextViableCredentialIndex(marked, t, cur, total)
    IN  IF total = 0
        THEN [ok |-> FALSE, credentials |-> creds, current |-> cur,
              credsIndex |-> 0, kvIndex |-> index0, kvExhausted |-> exhausted0]
        ELSE [ok |-> TRUE, credentials |-> creds, current |-> cur,
              credsIndex |-> scan.index,
              kvIndex |-> KvPut(index0, KV_CREDS_INDEX, NumToString(scan.index)),
              kvExhausted |-> scan.store]

(***************************************************************************)
(* The authentication cycle.                                               *)
(***************************************************************************)
\* Spec section 3: the token buffer time (config.ts), 300 s in its example.
TOKEN_BUFFER_TIME == 300000

\* hashString(id_token) (utils/hashing.ts): one hash per credential.
HashString(idToken) == idToken

\* The errors thrown.  "env" is line 101's, "parse" JSON.parse of an undefined
\* credential, "refresh" line 215's, "auth" line 150's wrapping of a cause,
\* "api" lines 321 and 376 with the status of request number request, "mcp"
\* line 366's, "network" a fetch that threw, "generic" line 391's placeholder.
NoError == [kind |-> "none", status |-> 0, request |-> 0]

ErrorOf(kind, status, request) == [kind |-> kind, status |-> status, request |-> request]

\* JSON.stringify(tokenData): the numbers become their decimals.
JsonStringify(tokenData) ==
    [access_token |-> tokenData.access_token,
     expiry_date |-> NumToString(tokenData.expiry_date),
     cached_at |-> NumToString(tokenData.cached_at)]

\* The value get(key, "json") parses from the text.
JsonParse(text) ==
    [access_token |-> text.access_token,
     expiry_date |-> ParseInt(text.expiry_date),
     cached_at |-> ParseInt(text.cached_at)]

\* get of the token entry as JSON: absent once its expirationTtl has run out
\* (ttlEnd is when it does).
KvGetToken(store, hash, t) ==
    IF KvHas(store, hash) /\ t < store[hash].ttlEnd
    THEN <<JsonParse(store[hash].value)>> ELSE <<>>

\* Mutant: the TTL is the whole remaining lifetime, without the 300 s.
CacheTokenInKV_NoMargin(store, hash, token, expiryDate, t) ==
    LET ttlSeconds == (expiryDate - t) \div 1000
    IN  IF ttlSeconds > 0
        THEN KvPut(store, hash,
                   [value |-> JsonStringify([access_token |-> token,
                                             expiry_date |-> expiryDate,
                                             cached_at |-> t]),
                    ttlEnd |-> t + ttlSeconds * 1000])
        ELSE store

\* cacheTokenInKV
CacheTokenInKV(store, hash, token, expiryDate, t) ==
    LET ttlSeconds == ((expiryDate - t) \div 1000) - 300
    IN  IF ttlSeconds > 0
        THEN KvPut(store, hash,
                   [value |-> JsonStringify([access_token |-> token,
                                             expiry_date |-> expiryDate,
                                             cached_at |-> t]),
                    ttlEnd |-> t + ttlSeconds * 1000])
        ELSE store

\* Mutant: a token is taken as valid with exactly the buffer left.
StillValid_Inclusive(expiryDate, t) == expiryDate - t >= TOKEN_BUFFER_TIME

\* Mutant: no token is ever taken as valid.
StillValid_Never(expiryDate, t) == FALSE

\* timeUntilExpiry > TOKEN_BUFFER_TIME (lines 123-124 and 133-134)
StillValid(expiryDate, t) == expiryDate - t > TOKEN_BUFFER_TIME

\* initializeAuth run to its end with nothing in between, on the fields of an
\* instance.  idp is the identity provider's answer should the refresh be made:
\* whether it is a success, the token and its expires_in.  source is where the
\* token came from and expiryDate when that token expires.
InitializeAuth(creds, index, hash0, token0, store, t, idp) ==
    IF Len(creds) = 0
    THEN [ok |-> FALSE, error |-> ErrorOf("env", 0, 0), accessToken |-> token0,
          credsHash |-> hash0, kvToken |-> store, source |-> "none", expiryDate |-> 0]
    ELSE IF index \notin 0..(Len(creds) - 1)
    THEN [ok |-> FALSE, error |-> ErrorOf("parse", 0, 0), accessToken |-> token0,
          credsHash |-> hash0, kvToken |-> store, source |-> "none", expiryDate |-> 0]
    ELSE LET oauth2Creds == creds[index + 1]
             hash        == HashString(oauth2Creds.id_token)
             cached      == KvGetToken(store, hash, t)
         IN  IF cached # <<>> /\ StillValid(cached[1].expiry_date, t)
             THEN [ok |-> TRUE, error |-> NoError, accessToken |-> cached[1].access_token,
                   credsHash |-> hash, kvToken |-> store, source |-> "cache",
                   expiryDate |-> cached[1].expiry_date]
             ELSE IF StillValid(oauth2Creds.expiry_date, t)
             THEN [ok |-> TRUE, error |-> NoError,
                   accessToken |-> oauth2Creds.access_token, credsHash |-> hash,
                   kvToken |-> CacheTokenInKV(store, hash, oauth2Creds.access_token,
                                              oauth2Creds.expiry_date, t),
                   source |-> "embedded", expiryDate |-> oauth2Creds.expiry_date]
             ELSE IF ~idp.ok
             THEN [ok |-> FALSE, error |-> ErrorOf("auth", 0, 0), accessToken |-> token0,
                   credsHash |-> hash, kvToken |-> store, source |-> "refresh",
                   expiryDate |-> 0]
             ELSE [ok |-> TRUE, error |-> NoError, accessToken |-> idp.token,
                   credsHash |-> hash,
                   kvToken |-> CacheTokenInKV(store, hash, idp.token,
                                              t + idp.expires_in * 1000, t),
                   source |-> "refresh", expiryDate |-> t + idp.expires_in * 1000]

\* clearTokenCache
ClearTokenCache(store, hash) == KvDelete(store, hash)

(***************************************************************************)
(* The upstream call wrappers.                                             *)
(***************************************************************************)
\* call: fn is the entry point called, pc where it stands ("auth" before an
\* initializeAuth, "fetch" before a request, "reauth" before the
\* initializeAuth that follows a 401, "returned", "threw"), requests the
\* upstream requests it has issued with their outcomes, delays the backoff
\* delays it has taken and after which attempt, body the request whose body
\* it returned, error the error it threw.
NoCall == [fn |-> "none", pc |-> "idle", method |-> "none", maxRetries |-> 0,
           baseDelay |-> 0, attempt |-> 0, isRetry |-> FALSE, lastError |-> NoError,
           error |-> NoError, body |-> 0, requests |-> <<>>, delays |-> <<>>]

\* response.status === 401 && !isRetry
RetriesOn401_Always(status, isRetry) == status = 401

RetriesOn401(status, isRetry) == status = 401 /\ ~isRetry

\* callEndpoint from the response on: c is the call with the request logged.
CallEndpointAfterResponse(c, outcome) ==
    LET k == Len(c.requests)
    IN  IF outcome.threw
        THEN [c EXCEPT !.pc = "threw", !.error = ErrorOf("network", 0, k)]
        ELSE IF outcome.status = 200
        THEN [c EXCEPT !.pc = "returned", !.body = k]
        ELSE IF RetriesOn401(outcome.status, c.isRetry)
        THEN [c EXCEPT !.pc = "reauth"]
        ELSE [c EXCEPT !.pc = "threw", !.error = ErrorOf("api", outcome.status, k)]

\* baseDelay * Math.pow(2, attempt - 1)
Backoff_Doubled(baseDelay, attempt) == baseDelay * 2 ^ attempt

Backoff(baseDelay, attempt) == baseDelay * 2 ^ (attempt - 1)

\* Mutant: the loop goes on whatever the attempt.
LoopNext_NoTest(c) == [c EXCEPT !.attempt = @ + 1, !.pc = "auth"]

\* attempt++ and the loop's test; past the loop, line 391.
LoopNext(c) ==
    IF c.attempt + 1 <= c.maxRetries
    THEN [c EXCEPT !.attempt = @ + 1, !.pc = "auth"]
    ELSE [c EXCEPT !.attempt = @ + 1, !.pc = "threw",
                   !.error = IF c.lastError = NoError
                             THEN ErrorOf("generic", 0, 0) ELSE c.lastError]

\* The catch block of lines 380-388, then the next iteration.
Catch(c, e) ==
    LoopNext([c EXCEPT !.lastError = e,
                       !.delays = IF c.attempt < c.maxRetries
                                  THEN Append(@, [after |-> c.attempt,
                                                  ms |-> Backoff(c.baseDelay, c.attempt)])
                                  ELSE @])

\* callEndpointWithRetry from the response on (lines 351-379).
RetryAfterResponse(c, outcome) ==
    LET k == Len(c.requests)
    IN  IF outcome.threw
        THEN Catch(c, ErrorOf("network", 0, k))
        ELSE IF outcome.status = 200
        THEN [c EXCEPT !.pc = "returned", !.body = k]
        ELSE IF outcome.status = 401 /\ c.attempt = 1
        THEN [c EXCEPT !.pc = "reauth"]
        ELSE IF outcome.status = 500 /\ c.method = "loadCodeAssist"
        THEN IF c.attempt < c.maxRetries
             THEN LoopNext([c EXCEPT !.lastError = ErrorOf("mcp", 500, k),
                                     !.delays = Append(@, [after |-> c.attempt,
                                                           ms |-> Backoff(c.baseDelay,
                                                                          c.attempt)])])
             ELSE Catch([c EXCEPT !.lastError = ErrorOf("mcp", 500, k)],
                        ErrorOf("api", 500, k))
        ELSE Catch(c, ErrorOf("api", outcome.status, k))

\* The time slept between call c and what it became.
Slept(c, d) == IF Len(d.delays) > Len(c.delays) THEN d.delays[Len(d.delays)].ms ELSE 0

(***************************************************************************)
(* What the environment may hold.                                          *)
(***************************************************************************)
\* The credential JSON of slot i (pool order is slot order); the embedded
\* access token expires at expiry.
Credential(i, expiry) ==
    [id_token |-> i, access_token |-> <<"embedded", i>>,
     refresh_token |-> <<"refresh", i>>, expiry_date |-> expiry]

\* The sets of slots that are set: the first k slots, for every k from none
\* to all, and all slots but one.
SlotChoices ==
    {1..k : k \in 0..NumSlots} \cup {(1..NumSlots) \ {j} : j \in 1..NumSlots}

\* The environments, with one expiry for the embedded tokens.
Environments(expiry) ==
    {[i \in 1..NumSlots |-> IF i \in S THEN <<Credential(i, expiry)>> ELSE <<>>] :
        S \in SlotChoices}

\* What may sit under KV_CREDS_INDEX before a call: nothing, an index written
\* by an earlier rotation (of this pool or of a larger one), or a value the
\* program did not write.
IntegerIndexes == {<<>>} \cup {<<NumToString(k)>> : k \in (-2)..(NumSlots - 1)}

StoredIndexes == IntegerIndexes \cup {<<<<"x">>>>}

KvIndexOf(stored) == [k \in (IF stored = <<>> THEN {} ELSE {KV_CREDS_INDEX}) |-> stored[1]]

\* The reset timestamps upstream reports: one already more than the safety
\* buffer in the past, one a minute after time 0.
ResetTimes == {-3 * TickMs, TickMs}

Tick ==
    /\ now < MaxTicks * TickMs
    /\ now' = now + TickMs
    /\ last' = [NoOp EXCEPT !.op = "tick"]
    /\ UNCHANGED <<call, issued, env, kvIndex, kvExhausted, kvToken, credentials, credsIndex,
                   credsHash, accessToken, pc, frame>>

(***************************************************************************)
(* The tracker and the scan called directly on one instance whose pool is  *)
(* loaded, each call run to its end before the next starts.                *)
(***************************************************************************)
M == CHOOSE p \in Procs : \A q \in Procs : p <= q

\* Slots 1..k set, the others unset.
FirstSlots(k, expiry) ==
    [i \in 1..NumSlots |-> IF i <= k THEN <<Credential(i, expiry)>> ELSE <<>>]

TrackerInit ==
    /\ now = 0
    /\ \E k \in 1..NumSlots :
          /\ env = FirstSlots(k, 0)
          /\ credentials = [p \in Procs |-> IF p = M THEN LoadCredentials(env) ELSE <<>>]
    /\ kvIndex = <<>>
    /\ kvExhausted = <<>>
    /\ kvToken = <<>>
    /\ credsIndex = [p \in Procs |-> 0]
    /\ credsHash = [p \in Procs |-> 0]
    /\ accessToken = [p \in Procs |-> Null]
    /\ pc = [p \in Procs |-> "idle"]
    /\ frame = [p \in Procs |-> NoFrame]
    /\ last = NoOp
    /\ call = NoCall
    /\ issued = 0

SeqMark(i, resetMs) ==
    /\ kvExhausted' = MarkPut(kvExhausted, i, resetMs)
    /\ last' = [NoOp EXCEPT !.op = "mark", !.arg = i, !.hasReset = TRUE,
                            !.resetMs = resetMs]
    /\ UNCHANGED <<call, issued, now, env, kvIndex, kvToken, credentials, credsIndex, credsHash,
                   accessToken, pc, frame>>

SeqIsExhausted(i) ==
    \E r \in {IsCredentialExhausted(kvExhausted, i, now)} :
        /\ kvExhausted' = r.store
        /\ last' = [NoOp EXCEPT !.op = "isExhausted", !.arg = i,
                                !.flag = r.read.exhausted, !.found = r.read.found,
                                !.until = r.read.until]
        /\ UNCHANGED <<call, issued, now, env, kvIndex, kvToken, credentials, credsIndex,
                       credsHash, accessToken, pc, frame>>

SeqScan(c) ==
    \E r \in {GetNextViableCredentialIndex(kvExhausted, now, c, Len(credentials[M]))} :
        /\ kvExhausted' = r.store
        /\ last' = [NoOp EXCEPT !.op = "scan", !.arg = c, !.index = r.index]
        /\ UNCHANGED <<call, issued, now, env, kvIndex, kvToken, credentials, credsIndex,
                       credsHash, accessToken, pc, frame>>

PoolIndexes == 0..(Len(credentials[M]) - 1)

TrackerNext ==
    \/ Tick
    \/ \E i \in PoolIndexes, r \in ResetTimes : SeqMark(i, r)
    \/ \E i \in PoolIndexes : SeqIsExhausted(i)
    \/ \E c \in PoolIndexes : SeqScan(c)

SpecTracker == TrackerInit /\ [][TrackerNext]_vars

(***************************************************************************)
(* rotateCredentials on one fresh instance, each call run to its end       *)
(* before the next starts.                                                 *)
(***************************************************************************)
RotateInit ==
    /\ now = 0
    /\ env \in Environments(0)
    /\ \E stored \in StoredIndexes : kvIndex = KvIndexOf(stored)
    /\ kvExhausted = <<>>
    /\ kvToken = <<>>
    /\ credentials = [p \in Procs |-> <<>>]
    /\ credsIndex = [p \in Procs |-> 0]
    /\ credsHash = [p \in Procs |-> 0]
    /\ accessToken = [p \in Procs |-> Null]
    /\ pc = [p \in Procs |-> "idle"]
    /\ frame = [p \in Procs |-> NoFrame]
    /\ last = NoOp
    /\ call = NoCall
    /\ issued = 0

SeqRotate(reason, hasReset, resetMs, readOk) ==
    \E r \in {RotateCredentials(credentials[M], kvIndex, kvExhausted, now,
                               reason, hasReset, resetMs, readOk)} :
        /\ credentials' = [credentials EXCEPT ![M] = r.credentials]
        /\ kvIndex' = r.kvIndex
        /\ kvExhausted' = r.kvExhausted
        /\ credsIndex' = [credsIndex EXCEPT ![M] = IF r.ok THEN r.credsIndex ELSE @]
        /\ accessToken' = [accessToken EXCEPT ![M] = IF r.ok THEN Null ELSE @]
        /\ credsHash' = [credsHash EXCEPT ![M] = IF r.ok THEN 0 ELSE @]
        /\ last' = [NoOp EXCEPT !.op = "rotate", !.proc = M, !.arg = r.current,
                                !.reason = reason,
                                !.hasReset = hasReset, !.resetMs = resetMs,
                                !.index = r.credsIndex, !.ok = r.ok]
        /\ UNCHANGED <<call, issued, now, env, kvToken, pc, frame>>

RotateNext ==
    \/ Tick
    \/ \E reason \in {"normal", "exhausted"}, r \in ResetTimes, readOk \in BOOLEAN :
          SeqRotate(reason, TRUE, r, readOk)
    \/ \E reason \in {"normal", "exhausted"} : SeqRotate(reason, FALSE, 0, TRUE)

SpecRotate == RotateInit /\ [][RotateNext]_vars

(***************************************************************************)
(* rotateCredentials on every instance at once: a call gives way to the    *)
(* other instances at each await of a store operation.                     *)
(***************************************************************************)
\* The largest pool the instances share here.
MaxPool == 2

Init ==
    /\ now = 0
    /\ \E k \in 0..MaxPool : env = FirstSlots(k, 0)
    /\ \E stored \in {<<>>} \cup {<<NumToString(k)>> : k \in {-2} \cup 0..MaxPool} :
          kvIndex = KvIndexOf(stored)
    /\ kvExhausted = <<>>
    /\ kvToken = <<>>
    /\ credentials = [p \in Procs |-> <<>>]
    /\ credsIndex = [p \in Procs |-> 0]
    /\ credsHash = [p \in Procs |-> 0]
    /\ accessToken = [p \in Procs |-> Null]
    /\ pc = [p \in Procs |-> "idle"]
    /\ frame = [p \in Procs |-> NoFrame]
    /\ last = NoOp
    /\ call = NoCall
    /\ issued = 0

\* Lines 154-168: the pool is loaded if it was not; with no credential the
\* call throws, otherwise it awaits the cursor.
RotateBegin(p, reason, hasReset, resetMs) ==
    /\ pc[p] = "idle"
    /\ \E creds \in {IF credentials[p] = <<>> THEN LoadCredentials(env)
                     ELSE credentials[p]} :
          /\ credentials' = [credentials EXCEPT ![p] = creds]
          /\ IF creds = <<>>
             THEN /\ last' = [NoOp EXCEPT !.op = "rotate", !.proc = p, !.ok = FALSE]
                  /\ UNCHANGED <<call, issued, pc, frame>>
             ELSE /\ pc' = [pc EXCEPT ![p] = "readIndex"]
                  /\ frame' = [frame EXCEPT ![p] = [NoFrame EXCEPT !.reason = reason,
                                   !.hasReset = hasReset, !.resetMs = resetMs]]
                  /\ last' = NoOp
    /\ UNCHANGED <<call, issued, now, env, kvIndex, kvExhausted, kvToken, credsIndex, credsHash,
                   accessToken>>

\* Lines 168-174: the cursor arrives (or the read fails) and is clamped.
RotateReadIndex(p, readOk) ==
    /\ pc[p] = "readIndex"
    /\ \E cur \in {ClampIndex(SavedIndexStr(kvIndex, readOk), Len(credentials[p]))} :
          /\ credsIndex' = [credsIndex EXCEPT ![p] = cur]
          /\ frame' = [frame EXCEPT ![p].next = cur, ![p].attempts = 0]
    /\ pc' = [pc EXCEPT ![p] = IF MarksCurrent(frame[p].reason, frame[p].hasReset)
                                THEN "mark" ELSE "scan"]
    /\ last' = NoOp
    /\ UNCHANGED <<call, issued, now, env, kvIndex, kvExhausted, kvToken, credentials, credsHash,
                   accessToken>>

\* Line 176: the put of markCredentialExhausted.
RotateMark(p) ==
    /\ pc[p] = "mark"
    /\ kvExhausted' = MarkPut(kvExhausted, credsIndex[p], frame[p].resetMs)
    /\ pc' = [pc EXCEPT ![p] = "scan"]
    /\ last' = NoOp
    /\ UNCHANGED <<call, issued, now, env, kvIndex, kvToken, credentials, credsIndex, credsHash,
                   accessToken, frame>>

\* Lines 85-93: one turn of the loop, up to the await that follows the get of
\* isCredentialExhausted: its delete, or the return.
RotateScan(p) ==
    /\ pc[p] = "scan"
    /\ \E n \in {ScanAdvance(frame[p].next, Len(credentials[p]))} :
       \E read \in {IsExhaustedRead(kvExhausted, n, now)} :
          /\ frame' = [frame EXCEPT ![p].next = n, ![p].attempts = @ + 1]
          /\ pc' = [pc EXCEPT ![p] =
                       IF read.cleanup THEN "cleanup"
                       ELSE IF ~read.exhausted THEN "writeIndex"
                       ELSE IF frame[p].attempts + 1 < Len(credentials[p]) THEN "scan"
                       ELSE "writeIndex"]
    /\ last' = NoOp
    /\ UNCHANGED <<call, issued, now, env, kvIndex, kvExhausted, kvToken, credentials, credsIndex,
                   credsHash, accessToken>>

\* Line 75: the delete of isCredentialExhausted, which then returns false.
RotateCleanup(p) ==
    /\ pc[p] = "cleanup"
    /\ kvExhausted' = KvDelete(kvExhausted, frame[p].next)
    /\ pc' = [pc EXCEPT ![p] = "writeIndex"]
    /\ last' = NoOp
    /\ UNCHANGED <<call, issued, now, env, kvIndex, kvToken, credentials, credsIndex, credsHash,
                   accessToken, frame>>

\* Lines 184-190: the index the scan returned becomes current and is put
\* under the cursor's key; the token state is reset.
RotateWriteIndex(p) ==
    /\ pc[p] = "writeIndex"
    /\ credsIndex' = [credsIndex EXCEPT ![p] = frame[p].next]
    /\ kvIndex' = KvPut(kvIndex, KV_CREDS_INDEX, NumToString(frame[p].next))
    /\ accessToken' = [accessToken EXCEPT ![p] = Null]
    /\ credsHash' = [credsHash EXCEPT ![p] = 0]
    /\ pc' = [pc EXCEPT ![p] = "idle"]
    /\ frame' = [frame EXCEPT ![p] = NoFrame]
    /\ last' = [NoOp EXCEPT !.op = "rotate", !.proc = p, !.arg = credsIndex[p],
                            !.reason = frame[p].reason, !.hasReset = frame[p].hasReset,
                            !.resetMs = frame[p].resetMs, !.index = frame[p].next]
    /\ UNCHANGED <<call, issued, now, env, kvExhausted, kvToken, credentials>>

Next ==
    \/ Tick
    \/ \E p \in Procs, reason \in {"normal", "exhausted"} :
          RotateBegin(p, reason, TRUE, TickMs)
    \/ \E p \in Procs, readOk \in BOOLEAN : RotateReadIndex(p, readOk)
    \/ \E p \in Procs : RotateMark(p)
    \/ \E p \in Procs : RotateScan(p)
    \/ \E p \in Procs : RotateCleanup(p)
    \/ \E p \in Procs : RotateWriteIndex(p)

Spec == Init /\ [][Next]_vars

(***************************************************************************)
(* initializeAuth, callEndpoint and callEndpointWithRetry on one instance, *)
(* one call a behaviour, a step at each await of the identity provider or  *)
(* of upstream.                                                            *)
(***************************************************************************)
\* The largest maxRetries a caller passes.
MaxRetries == 3

BaseDelays == {250, 1000}

Methods == {"loadCodeAssist", "generateContent"}

\* When the embedded access tokens expire: at time 0, or an hour later.
EmbeddedExpiries == {0, 60 * TickMs}

\* expires_in of a refreshed token, in seconds: an hour, or less than the
\* token buffer time.
ExpiresIn == {3600, 240}

\* What upstream does with a request: a response with a status (200 for any
\* 2xx), or a fetch that throws.
Outcomes ==
    {[threw |-> FALSE, status |-> s] : s \in {200, 401, 403, 500}}
        \cup {[threw |-> TRUE, status |-> 0]}

\* What the identity provider does with a refresh.
IdpAnswers ==
    {[ok |-> b, token |-> <<"refreshed", issued + 1>>, expires_in |-> e] :
        b \in BOOLEAN, e \in ExpiresIn}

\* An instance that is fresh or has rotated before, with one credential
\* configured or none, and a token cache that is empty or holds the token of
\* an earlier refresh.
CallInit ==
    /\ now = 0
    /\ \E k \in 0..1, expiry \in EmbeddedExpiries, loaded \in BOOLEAN :
          /\ env = FirstSlots(k, expiry)
          /\ credentials = [p \in Procs |-> IF p = M /\ loaded
                                            THEN LoadCredentials(env) ELSE <<>>]
          /\ kvToken \in {<<>>} \cup
                {CacheTokenInKV(<<>>, HashString(j), <<"refreshed", 0>>,
                                60 * TickMs, 0) : j \in 1..k}
    /\ kvIndex = <<>>
    /\ kvExhausted = <<>>
    /\ credsIndex = [p \in Procs |-> 0]
    /\ credsHash = [p \in Procs |-> 0]
    /\ accessToken = [p \in Procs |-> Null]
    /\ pc = [p \in Procs |-> "idle"]
    /\ frame = [p \in Procs |-> NoFrame]
    /\ last = NoOp
    /\ call = NoCall
    /\ issued = 0

\* initializeAuth on instance M, its effect on the fields and the stores.
Authenticate(r) ==
    /\ accessToken' = [accessToken EXCEPT ![M] = r.accessToken]
    /\ credsHash' = [credsHash EXCEPT ![M] = r.credsHash]
    /\ kvToken' = r.kvToken
    /\ issued' = IF r.ok /\ r.source = "refresh" THEN issued + 1 ELSE issued

AuthResults(idp) ==
    {InitializeAuth(credentials[M], credsIndex[M], credsHash[M], accessToken[M],
                    kvToken, now, idp)}

\* this.accessToken = null; await this.clearTokenCache()
ClearToken ==
    /\ accessToken' = [accessToken EXCEPT ![M] = Null]
    /\ kvToken' = ClearTokenCache(kvToken, credsHash[M])

Request(outcome) ==
    [attempt |-> call.attempt, threw |-> outcome.threw, status |-> outcome.status,
     token |-> accessToken[M]]

\* POST /token-test: initializeAuth called from outside.
TokenTest(idp) ==
    /\ call.pc = "idle"
    /\ \E r \in AuthResults(idp) :
          /\ Authenticate(r)
          /\ call' = [NoCall EXCEPT !.fn = "initializeAuth",
                                    !.pc = IF r.ok THEN "returned" ELSE "threw",
                                    !.error = r.error]
    /\ last' = [NoOp EXCEPT !.op = "call"]
    /\ UNCHANGED <<now, env, kvIndex, kvExhausted, credentials, credsIndex, pc, frame>>

CallEndpointBegin(method) ==
    /\ call.pc = "idle"
    /\ call' = [NoCall EXCEPT !.fn = "callEndpoint", !.pc = "auth", !.method = method,
                              !.attempt = 1]
    /\ last' = [NoOp EXCEPT !.op = "call"]
    /\ UNCHANGED <<now, env, kvIndex, kvExhausted, kvToken, credentials, credsIndex,
                   credsHash, accessToken, pc, frame, issued>>

\* Mutant: a failed initializeAuth is passed over and the request is sent
\* with whatever this.accessToken holds.
CallEndpointAuth_Fallback(idp) ==
    /\ call.fn = "callEndpoint" /\ call.pc = "auth"
    /\ \E r \in AuthResults(idp) :
          /\ Authenticate(r)
          /\ call' = [call EXCEPT !.pc = "fetch"]
    /\ last' = [NoOp EXCEPT !.op = "call"]
    /\ UNCHANGED <<now, env, kvIndex, kvExhausted, credentials, credsIndex, pc, frame>>

\* Line 301.
CallEndpointAuth(idp) ==
    /\ call.fn = "callEndpoint" /\ call.pc = "auth"
    /\ \E r \in AuthResults(idp) :
          /\ Authenticate(r)
          /\ call' = IF r.ok THEN [call EXCEPT !.pc = "fetch"]
                     ELSE [call EXCEPT !.pc = "threw", !.error = r.error]
    /\ last' = [NoOp EXCEPT !.op = "call"]
    /\ UNCHANGED <<now, env, kvIndex, kvExhausted, credentials, credsIndex, pc, frame>>

\* Lines 303-324, up to the await of clearTokenCache.
CallEndpointFetch(outcome) ==
    /\ call.fn = "callEndpoint" /\ call.pc = "fetch"
    /\ \E c \in {CallEndpointAfterResponse(
                    [call EXCEPT !.requests = Append(@, Request(outcome))], outcome)} :
          /\ call' = c
          /\ IF c.pc = "reauth" THEN ClearToken ELSE UNCHANGED <<accessToken, kvToken>>
    /\ last' = [NoOp EXCEPT !.op = "call"]
    /\ UNCHANGED <<now, env, kvIndex, kvExhausted, credentials, credsIndex, credsHash,
                   pc, frame, issued>>

\* Lines 317-318: initializeAuth, then callEndpoint(method, body, true).
CallEndpointReauth(idp) ==
    /\ call.fn = "callEndpoint" /\ call.pc = "reauth"
    /\ \E r \in AuthResults(idp) :
          /\ Authenticate(r)
          /\ call' = IF r.ok
                     THEN [call EXCEPT !.pc = "auth", !.isRetry = TRUE, !.attempt = @ + 1]
                     ELSE [call EXCEPT !.pc = "threw", !.error = r.error]
    /\ last' = [NoOp EXCEPT !.op = "call"]
    /\ UNCHANGED <<now, env, kvIndex, kvExhausted, credentials, credsIndex, pc, frame>>

RetryBegin(method, maxRetries, baseDelay) ==
    /\ call.pc = "idle"
    /\ call' = [NoCall EXCEPT !.fn = "callEndpointWithRetry", !.pc = "auth",
                              !.method = method, !.maxRetries = maxRetries,
                              !.baseDelay = baseDelay, !.attempt = 1]
    /\ last' = [NoOp EXCEPT !.op = "call"]
    /\ UNCHANGED <<now, env, kvIndex, kvExhausted, kvToken, credentials, credsIndex,
                   credsHash, accessToken, pc, frame, issued>>

\* Line 340, and the catch block if it throws.
RetryAuth(idp) ==
    /\ call.fn = "callEndpointWithRetry" /\ call.pc = "auth"
    /\ \E r \in AuthResults(idp) :
          /\ Authenticate(r)
          /\ \E c \in {IF r.ok THEN [call EXCEPT !.pc = "fetch"] ELSE Catch(call, r.error)} :
                /\ call' = c
                /\ now' = now + Slept(call, c)
    /\ last' = [NoOp EXCEPT !.op = "call"]
    /\ UNCHANGED <<env, kvIndex, kvExhausted, credentials, credsIndex, pc, frame>>

\* Lines 342-379, up to the await of clearTokenCache, and the catch block.
RetryFetch(outcome) ==
    /\ call.fn = "callEndpointWithRetry" /\ call.pc = "fetch"
    /\ \E c \in {RetryAfterResponse(
                    [call EXCEPT !.requests = Append(@, Request(outcome))], outcome)} :
          /\ call' = c
          /\ now' = now + Slept(call, c)
          /\ IF c.pc = "reauth" THEN ClearToken ELSE UNCHANGED <<accessToken, kvToken>>
    /\ last' = [NoOp EXCEPT !.op = "call"]
    /\ UNCHANGED <<env, kvIndex, kvExhausted, credentials, credsIndex, credsHash,
                   pc, frame, issued>>

\* Lines 357-358: initializeAuth then continue, and the catch block if it throws.
RetryReauth(idp) ==
    /\ call.fn = "callEndpointWithRetry" /\ call.pc = "reauth"
    /\ \E r \in AuthResults(idp) :
          /\ Authenticate(r)
          /\ \E c \in {IF r.ok THEN LoopNext(call) ELSE Catch(call, r.error)} :
                /\ call' = c
                /\ now' = now + Slept(call, c)
    /\ last' = [NoOp EXCEPT !.op = "call"]
    /\ UNCHANGED <<env, kvIndex, kvExhausted, credentials, credsIndex, pc, frame>>

CallNext ==
    \/ Tick
    \/ \E idp \in IdpAnswers : TokenTest(idp)
    \/ \E method \in Methods : CallEndpointBegin(method)
    \/ \E idp \in IdpAnswers : CallEndpointAuth(idp)
    \/ \E outcome \in Outcomes : CallEndpointFetch(outcome)
    \/ \E idp \in IdpAnswers : CallEndpointReauth(idp)
    \/ \E method \in Methods, maxRetries \in 1..MaxRetries, baseDelay \in BaseDelays :
          RetryBegin(method, maxRetries, baseDelay)
    \/ \E idp \in IdpAnswers : RetryAuth(idp)
    \/ \E outcome \in Outcomes : RetryFetch(outcome)
    \/ \E idp \in IdpAnswers : RetryReauth(idp)

SpecCall == CallInit /\ [][CallNext]_vars

(***************************************************************************)
(* The authentication cycle and the token cache on one instance whose pool *)
(* is loaded, each call run to its end before the next starts, with a      *)
(* store whose reads and writes may fail and whose reads may lag.          *)
(***************************************************************************)
\* The clock of this specification advances by StepMs, MaxSteps times.
StepMs == 400000

MaxSteps == 2

\* The most tokens the identity provider issues.
MaxIssued == 2

\* When the embedded access token expires: at time 0, with exactly the buffer
\* left at time 0, with half a second more, with exactly the buffer left
\* after one step of the clock, or 1000 s after time 0.
AuthExpiries ==
    {0, TOKEN_BUFFER_TIME, TOKEN_BUFFER_TIME + 500, TOKEN_BUFFER_TIME + 400000, 1000000}

\* How long after now the token handed to cacheTokenInKV expires.
CacheOffsets ==
    {TOKEN_BUFFER_TIME, TOKEN_BUFFER_TIME + 999, TOKEN_BUFFER_TIME + 1000, 1000000}

\* What the store does during a call: a get may still see an entry for lag ms
\* after its expirationTtl has run out, and a get or a put may throw.
StoreBehaviours ==
    {[lag |-> 0, readOk |-> TRUE, writeOk |-> TRUE],
     [lag |-> TickMs, readOk |-> TRUE, writeOk |-> TRUE],
     [lag |-> 0, readOk |-> FALSE, writeOk |-> TRUE],
     [lag |-> 0, readOk |-> TRUE, writeOk |-> FALSE]}

\* The store as a get sees it.
KvView(store, kv) ==
    IF kv.readOk
    THEN [k \in DOMAIN store |-> [store[k] EXCEPT !.ttlEnd = @ + kv.lag]]
    ELSE <<>>

\* The keys put between two states of the store.
Written(before, after) ==
    {k \in DOMAIN after : ~KvHas(before, k) \/ after[k] # before[k]}

\* Mutant: a put that throws makes initializeAuth throw.
InitializeAuthOnStore_Throws(creds, index, hash0, token0, store, t, idp, kv) ==
    LET view == KvView(store, kv)
        r    == InitializeAuth(creds, index, hash0, token0, view, t, idp)
        puts == Written(view, r.kvToken)
    IN  IF kv.writeOk
        THEN [r EXCEPT !.kvToken = [k \in DOMAIN store \cup puts |->
                                       IF k \in puts THEN r.kvToken[k] ELSE store[k]]]
        ELSE IF puts # {}
        THEN [r EXCEPT !.ok = FALSE, !.error = ErrorOf("auth", 0, 0),
                       !.kvToken = store]
        ELSE [r EXCEPT !.kvToken = store]

\* initializeAuth on a store that behaves as kv says: a get that throws is
\* caught and read as no entry (lines 111-119), a put that throws is caught
\* in cacheTokenInKV (lines 253-256).
InitializeAuthOnStore(creds, index, hash0, token0, store, t, idp, kv) ==
    LET view == KvView(store, kv)
        r    == InitializeAuth(creds, index, hash0, token0, view, t, idp)
        puts == Written(view, r.kvToken)
    IN  [r EXCEPT !.kvToken =
            IF kv.writeOk
            THEN [k \in DOMAIN store \cup puts |->
                     IF k \in puts THEN r.kvToken[k] ELSE store[k]]
            ELSE store]

\* last, for the calls of this specification: cached is what the get of the
\* call returned, token and expiryDate the token the call adopted or was
\* handed, source where initializeAuth took it, idpOk and writeOk whether the
\* identity provider would accept a refresh and the store a put.
NoAuthOp == [op |-> "none", ok |-> TRUE, error |-> NoError, source |-> "none",
             token |-> Null, expiryDate |-> 0, idpOk |-> TRUE, writeOk |-> TRUE,
             cached |-> <<>>]

AuthInit ==
    /\ now = 0
    /\ \E expiry \in AuthExpiries : env = FirstSlots(1, expiry)
    /\ credentials = [p \in Procs |-> IF p = M THEN LoadCredentials(env) ELSE <<>>]
    /\ kvIndex = <<>>
    /\ kvExhausted = <<>>
    /\ kvToken = <<>>
    /\ credsIndex = [p \in Procs |-> 0]
    /\ credsHash = [p \in Procs |-> 0]
    /\ accessToken = [p \in Procs |-> Null]
    /\ pc = [p \in Procs |-> "idle"]
    /\ frame = [p \in Procs |-> NoFrame]
    /\ last = NoOp
    /\ call = NoCall
    /\ issued = 0

AuthTick ==
    /\ now < MaxSteps * StepMs
    /\ now' = now + StepMs
    /\ last' = [NoAuthOp EXCEPT !.op = "tick"]
    /\ UNCHANGED <<env, kvIndex, kvExhausted, kvToken, credentials, credsIndex,
                   credsHash, accessToken, pc, frame, call, issued>>

\* No callEndpoint or callEndpointWithRetry is under way.
NoCallRunning == call.pc \in {"idle", "returned", "threw"}

SeqInitializeAuth(idp, kv) ==
    /\ NoCallRunning
    /\ \E r \in {InitializeAuthOnStore(credentials[M], credsIndex[M], credsHash[M],
                                      accessToken[M], kvToken, now, idp, kv)} :
          /\ (r.ok /\ r.source = "refresh") => issued < MaxIssued
          /\ Authenticate(r)
          /\ last' = [NoAuthOp EXCEPT
                         !.op = "initializeAuth", !.ok = r.ok, !.error = r.error,
                         !.source = r.source, !.token = r.accessToken,
                         !.expiryDate = r.expiryDate, !.idpOk = idp.ok,
                         !.writeOk = kv.writeOk,
                         !.cached = KvGetToken(KvView(kvToken, kv), r.credsHash, now)]
    /\ UNCHANGED <<now, env, kvIndex, kvExhausted, credentials, credsIndex, pc, frame,
                   call>>

\* cacheTokenInKV(token, now + offset) under this.credsHash.
SeqCacheToken(token, offset, writeOk) ==
    /\ NoCallRunning
    /\ kvToken' = IF writeOk
                  THEN CacheTokenInKV(kvToken, credsHash[M], token, now + offset, now)
                  ELSE kvToken
    /\ last' = [NoAuthOp EXCEPT !.op = "cacheTokenInKV", !.token = token,
                                !.expiryDate = now + offset, !.writeOk = writeOk]
    /\ UNCHANGED <<now, env, kvIndex, kvExhausted, credentials, credsIndex, credsHash,
                   accessToken, pc, frame, call, issued>>

\* clearTokenCache: a delete that throws is caught (lines 266-268).
SeqClearTokenCache(deleteOk) ==
    /\ NoCallRunning
    /\ kvToken' = IF deleteOk THEN ClearTokenCache(kvToken, credsHash[M]) ELSE kvToken
    /\ last' = [NoAuthOp EXCEPT !.op = "clearTokenCache", !.writeOk = deleteOk]
    /\ UNCHANGED <<now, env, kvIndex, kvExhausted, credentials, credsIndex, credsHash,
                   accessToken, pc, frame, call, issued>>

\* Mutant: the cache-status read also runs the lazy cleanup of the current
\* credential's exhaustion record.
SeqGetCachedTokenInfo_Cleans(kv) ==
    /\ NoCallRunning
    /\ \E cached \in {KvGetToken(KvView(kvToken, kv), credsHash[M], now)} :
          /\ last' = [NoAuthOp EXCEPT !.op = "getCachedTokenInfo", !.cached = cached]
          /\ kvToken' = kvToken
          /\ kvExhausted' = IsCredentialExhausted(kvExhausted, credsIndex[M], now).store
    /\ UNCHANGED <<now, env, kvIndex, credentials, credsIndex, credsHash,
                   accessToken, pc, frame, call, issued>>

\* getCachedTokenInfo: {cached: true, ...} of the entry the get returns,
\* {cached: false} with none or a get that throws.
SeqGetCachedTokenInfo(kv) ==
    /\ NoCallRunning
    /\ \E cached \in {KvGetToken(KvView(kvToken, kv), credsHash[M], now)} :
          /\ last' = [NoAuthOp EXCEPT !.op = "getCachedTokenInfo", !.cached = cached]
          /\ kvToken' = kvToken
          /\ kvExhausted' = kvExhausted
    /\ UNCHANGED <<now, env, kvIndex, credentials, credsIndex, credsHash,
                   accessToken, pc, frame, call, issued>>

AuthNext ==
    \/ AuthTick
    \/ \E idp \in IdpAnswers, kv \in StoreBehaviours : SeqInitializeAuth(idp, kv)
    \/ \E deleteOk \in BOOLEAN : SeqClearTokenCache(deleteOk)
    \/ \E kv \in StoreBehaviours : SeqGetCachedTokenInfo(kv)

SpecAuth == AuthInit /\ [][AuthNext]_vars

(***************************************************************************)
(* cacheTokenInKV called with tokens of every remaining lifetime, between  *)
(* calls of initializeAuth on a store that does not fail.                  *)
(***************************************************************************)
Reliable == [lag |-> 0, readOk |-> TRUE, writeOk |-> TRUE]

CacheNext ==
    \/ AuthTick
    \/ \E idp \in IdpAnswers : SeqInitializeAuth(idp, Reliable)
    \/ \E offset \in CacheOffsets, writeOk \in BOOLEAN :
          SeqCacheToken(<<"handed">>, offset, writeOk)
    \/ SeqClearTokenCache(TRUE)

SpecCache == AuthInit /\ [][CacheNext]_vars

(***************************************************************************)
(* Every operation but rotateCredentials, on an instance that has rotated: *)
(* the store holds the cursor and an exhaustion record that has expired    *)
(* and was not read since.                                                 *)
(***************************************************************************)
FrameInit ==
    /\ now = 0
    /\ \E expiry \in EmbeddedExpiries :
          /\ env = FirstSlots(1, expiry)
          /\ credentials = [p \in Procs |-> IF p = M THEN LoadCredentials(env) ELSE <<>>]
    /\ kvIndex = KvIndexOf(<<NumToString(0)>>)
    /\ kvExhausted = MarkPut(<<>>, 0, -3 * TickMs)
    /\ kvToken = <<>>
    /\ credsIndex = [p \in Procs |-> 0]
    /\ credsHash = [p \in Procs |-> 0]
    /\ accessToken = [p \in Procs |-> Null]
    /\ pc = [p \in Procs |-> "idle"]
    /\ frame = [p \in Procs |-> NoFrame]
    /\ last = NoOp
    /\ call = NoCall
    /\ issued = 0

FrameNext ==
    \/ \E idp \in IdpAnswers : TokenTest(idp)
    \/ \E method \in Methods : CallEndpointBegin(method)
    \/ \E idp \in IdpAnswers : CallEndpointAuth(idp)
    \/ \E outcome \in Outcomes : CallEndpointFetch(outcome)
    \/ \E idp \in IdpAnswers : CallEndpointReauth(idp)
    \/ \E method \in Methods, maxRetries \in 1..2 : RetryBegin(method, maxRetries, 250)
    \/ \E idp \in IdpAnswers : RetryAuth(idp)
    \/ \E outcome \in Outcomes : RetryFetch(outcome)
    \/ \E idp \in IdpAnswers : RetryReauth(idp)
    \/ \E deleteOk \in BOOLEAN : SeqClearTokenCache(deleteOk)
    \/ \E kv \in StoreBehaviours : SeqGetCachedTokenInfo(kv)

SpecFrame == FrameInit /\ [][FrameNext]_vars

(***************************************************************************)
(* markCredentialExhausted and isCredentialExhausted called on every       *)
(* instance at once: isCredentialExhausted gives way to the other          *)
(* instances between its get and its delete.                               *)
(***************************************************************************)
\* The reset timestamps upstream reports here: one and three minutes after
\* time 0.
RaceResets == {TickMs, 3 * TickMs}

RaceInit ==
    /\ now = 0
    /\ \E k \in 1..MaxPool :
          /\ env = FirstSlots(k, 0)
          /\ credentials = [p \in Procs |-> LoadCredentials(env)]
    /\ kvIndex = <<>>
    /\ kvExhausted = <<>>
    /\ kvToken = <<>>
    /\ credsIndex = [p \in Procs |-> 0]
    /\ credsHash = [p \in Procs |-> 0]
    /\ accessToken = [p \in Procs |-> Null]
    /\ pc = [p \in Procs |-> "idle"]
    /\ frame = [p \in Procs |-> NoFrame]
    /\ last = NoOp
    /\ call = NoCall
    /\ issued = 0

\* markCredentialExhausted(i, resetMs): its one store operation is the put.
RaceMark(p, i, resetMs) ==
    /\ pc[p] = "idle"
    /\ kvExhausted' = MarkPut(kvExhausted, i, resetMs)
    /\ last' = [NoOp EXCEPT !.op = "mark", !.proc = p, !.arg = i, !.hasReset = TRUE,
                            !.resetMs = resetMs]
    /\ UNCHANGED <<now, env, kvIndex, kvToken, credentials, credsIndex, credsHash,
                   accessToken, pc, frame, call, issued>>

\* Lines 69-74 of isCredentialExhausted(i): the get, the test, and either the
\* return or the await of the delete.
RaceRead(p, i) ==
    /\ pc[p] = "idle"
    /\ \E read \in {IsExhaustedRead(kvExhausted, i, now)} :
          /\ pc' = [pc EXCEPT ![p] = IF read.cleanup THEN "cleanup" ELSE "idle"]
          /\ frame' = [frame EXCEPT ![p].next = IF read.cleanup THEN i ELSE @]
          /\ last' = [NoOp EXCEPT !.op = "isExhausted", !.proc = p, !.arg = i,
                                  !.flag = read.exhausted, !.found = read.found,
                                  !.until = read.until, !.ok = ~read.cleanup]
    /\ UNCHANGED <<now, env, kvIndex, kvExhausted, kvToken, credentials, credsIndex,
                   credsHash, accessToken, call, issued>>

\* Line 75: the delete, after which isCredentialExhausted returns false.
RaceDelete(p) ==
    /\ pc[p] = "cleanup"
    /\ kvExhausted' = KvDelete(kvExhausted, frame[p].next)
    /\ pc' = [pc EXCEPT ![p] = "idle"]
    /\ frame' = [frame EXCEPT ![p] = NoFrame]
    /\ last' = [NoOp EXCEPT !.op = "isExhausted", !.proc = p, !.arg = frame[p].next]
    /\ UNCHANGED <<now, env, kvIndex, kvToken, credentials, credsIndex, credsHash,
                   accessToken, call, issued>>

RaceNext ==
    \/ Tick
    \/ \E p \in Procs : \E i \in 0..(Len(credentials[p]) - 1), r \in RaceResets :
          RaceMark(p, i, r)
    \/ \E p \in Procs : \E i \in 0..(Len(credentials[p]) - 1) : RaceRead(p, i)
    \/ \E p \in Procs : RaceDelete(p)

SpecRace == RaceInit /\ [][RaceNext]_vars

(***************************************************************************)
(* rotateCredentials on one instance with a store whose put of the         *)
(* exhaustion record may throw, and initializeAuth between the calls when  *)
(* the instance holds no token, all at one time of the clock.              *)
(***************************************************************************)
\* Mutant: a put of the exhaustion record that throws is passed over and the
\* rotation goes on without the record.
RotateOnStore_Swallows(creds0, index0, exhausted0, t, reason, hasReset, resetMs, readOk, markOk) ==
    LET r == RotateCredentials(creds0, index0, exhausted0, t, reason,
                               hasReset /\ markOk, resetMs, readOk)
    IN  [ok |-> r.ok, assigned |-> r.ok, credentials |-> r.credentials,
         current |-> r.current, credsIndex |-> r.credsIndex,
         kvIndex |-> r.kvIndex, kvExhausted |-> r.kvExhausted]

\* rotateCredentials run to its end on a store whose put in
\* markCredentialExhausted succeeds or throws (markOk): nothing catches the
\* throw, so the call ends at line 176 with this.credsIndex assigned at line
\* 169 and nothing written.  assigned is whether line 169 was reached.
RotateOnStore(creds0, index0, exhausted0, t, reason, hasReset, resetMs, readOk, markOk) ==
    LET r == RotateCredentials(creds0, index0, exhausted0, t, reason, hasReset,
                               resetMs, readOk)
    IN  IF r.ok /\ MarksCurrent(reason, hasReset) /\ ~markOk
        THEN [ok |-> FALSE, assigned |-> TRUE, credentials |-> r.credentials,
              current |-> r.current, credsIndex |-> r.current,
              kvIndex |-> index0, kvExhausted |-> exhausted0]
        ELSE [ok |-> r.ok, assigned |-> r.ok, credentials |-> r.credentials,
              current |-> r.current, credsIndex |-> r.credsIndex,
              kvIndex |-> r.kvIndex, kvExhausted |-> r.kvExhausted]

\* last.flag is whether the put of the exhaustion record threw.
SeqRotateOnStore(reason, hasReset, resetMs, readOk, markOk) ==
    \E r \in {RotateOnStore(credentials[M], kvIndex, kvExhausted, now,
                           reason, hasReset, resetMs, readOk, markOk)} :
        /\ credentials' = [credentials EXCEPT ![M] = r.credentials]
        /\ kvIndex' = r.kvIndex
        /\ kvExhausted' = r.kvExhausted
        /\ credsIndex' = [credsIndex EXCEPT ![M] = IF r.assigned THEN r.credsIndex ELSE @]
        /\ accessToken' = [accessToken EXCEPT ![M] = IF r.ok THEN Null ELSE @]
        /\ credsHash' = [credsHash EXCEPT ![M] = IF r.ok THEN 0 ELSE @]
        /\ last' = [NoOp EXCEPT !.op = "rotate", !.proc = M, !.arg = r.current,
                                !.reason = reason,
                                !.hasReset = hasReset, !.resetMs = resetMs,
                                !.index = r.credsIndex, !.ok = r.ok,
                                !.flag = r.assigned /\ ~r.ok]
        /\ UNCHANGED <<call, issued, now, env, kvToken, pc, frame>>

\* A pool of one credential or more, and a cursor that is absent or was
\* written by an earlier rotation of this pool.
RotateFailInit ==
    /\ now = 0
    /\ \E k \in 1..MaxPool :
          /\ env = FirstSlots(k, 0)
          /\ \E stored \in {<<>>} \cup {<<NumToString(c)>> : c \in 0..(k - 1)} :
                kvIndex = KvIndexOf(stored)
    /\ kvExhausted = <<>>
    /\ kvToken = <<>>
    /\ credentials = [p \in Procs |-> <<>>]
    /\ credsIndex = [p \in Procs |-> 0]
    /\ credsHash = [p \in Procs |-> 0]
    /\ accessToken = [p \in Procs |-> Null]
    /\ pc = [p \in Procs |-> "idle"]
    /\ frame = [p \in Procs |-> NoFrame]
    /\ last = NoOp
    /\ call = NoCall
    /\ issued = 0

RotateFailNext ==
    \/ \E reason \in {"normal", "exhausted"}, r \in ResetTimes, markOk \in BOOLEAN :
          SeqRotateOnStore(reason, TRUE, r, TRUE, markOk)
    \/ \E idp \in {a \in IdpAnswers : a.expires_in = 3600} :
          /\ credentials[M] # <<>> /\ accessToken[M] = Null
          /\ SeqInitializeAuth(idp, Reliable)

SpecRotateFail == RotateFailInit /\ [][RotateFailNext]_vars

(***************************************************************************)
(* callEndpointWithRetry alone, run to its end: every promise it awaits    *)
(* (initializeAuth, the fetch, the backoff timer) settles, so the step     *)
(* after the await is taken.                                               *)
(***************************************************************************)
RetryStep ==
    \/ \E idp \in IdpAnswers : RetryAuth(idp)
    \/ \E outcome \in Outcomes : RetryFetch(outcome)
    \/ \E idp \in IdpAnswers : RetryReauth(idp)

RetryNext ==
    \/ \E method \in Methods, maxRetries \in 1..MaxRetries, baseDelay \in BaseDelays :
          RetryBegin(method, maxRetries, baseDelay)
    \/ RetryStep

SpecRetry == CallInit /\ [][RetryNext]_vars /\ WF_vars(RetryStep)

(***************************************************************************)
(* The claims.  What they say of a call is said of the step that is the    *)
(* call: the unprimed variables are the state it started in, the primed    *)
(* ones the state it left.                                                 *)
(***************************************************************************)
\* A record for index i is in the store and its until is still ahead of time t.
ExhaustedAt(store, i, t) == KvHas(store, i) /\ t < ParseInt(store[i])

\* The k-th index of the circular order c+1, c+2, ..., c of a pool of n.
Circular(c, k, n) == (c + k) % n

\* The positions of that order whose index is not exhausted.
ViablePositions(store, c, n, t) ==
    {k \in 1..n : ~ExhaustedAt(store, Circular(c, k, n), t)}

Least(S) == CHOOSE k \in S : \A j \in S : k <= j

PoolSize == Len(credentials[M])

\* C2: getNextViableCredentialIndex(c), for c in [0, N-1], returns the first
\* index of the circular order c+1, ..., c that is not exhausted: never an
\* exhausted index while a non-exhausted one exists, and the only non-exhausted
\* index when there is exactly one.
C2_ScanReturnsFirstViable ==
    [][\A c \in PoolIndexes :
          LET viable == ViablePositions(kvExhausted, c, PoolSize, now)
              free   == {i \in PoolIndexes : ~ExhaustedAt(kvExhausted, i, now)}
          IN  (SeqScan(c) /\ viable # {}) =>
                 /\ last'.index = Circular(c, Least(viable), PoolSize)
                 /\ ~ExhaustedAt(kvExhausted, last'.index, now)
                 /\ (Cardinality(free) = 1 => free = {last'.index})]_vars

\* C2 witness: in a pool of three a scan from index 0 has passed over index 1,
\* still exhausted, and returned index 2, the only one not exhausted.
C2_Witness ==
    /\ last.op = "scan" /\ last.arg = 0 /\ last.index = 2
    /\ PoolSize = 3
    /\ ExhaustedAt(kvExhausted, 0, now)
    /\ ExhaustedAt(kvExhausted, 1, now)

MarkStoresUntil ==
    \A i \in PoolIndexes, r \in ResetTimes :
        SeqMark(i, r) => /\ KvHas(kvExhausted', i)
                         /\ ParseInt(kvExhausted'[i]) = r + 120000

\* Once the clock has reached the until of i's record, isExhausted(i) returns
\* false and removes the record.
ExpiredIsRemoved ==
    \A i \in PoolIndexes :
        (SeqIsExhausted(i) /\ KvHas(kvExhausted, i) /\ now >= ParseInt(kvExhausted[i])) =>
            ~last'.flag /\ ~KvHas(kvExhausted', i)

\* With no record for i, isExhausted(i) returns false and adds none; only a
\* mark of i brings a record for i back.
StaysRecoveredUntilMarked ==
    \A i \in PoolIndexes :
        /\ (SeqIsExhausted(i) /\ ~KvHas(kvExhausted, i)) =>
              ~last'.flag /\ ~KvHas(kvExhausted', i)
        /\ (~KvHas(kvExhausted, i) /\ KvHas(kvExhausted', i)) =>
              \E r \in ResetTimes : SeqMark(i, r)

\* C7 as stated: isExhausted(i) right after mark(i, reset) returns true for
\* every reset timestamp; once until is reached it returns false, the record is
\* removed and later calls return false until i is marked again.
C7_Original ==
    /\ [][MarkStoresUntil /\ ExpiredIsRemoved /\ StaysRecoveredUntilMarked]_vars
    /\ [][\A i \in PoolIndexes :
             (last.op = "mark" /\ last.arg = i /\ SeqIsExhausted(i)) => last'.flag]_vars

\* C7 amended: isExhausted(i) right after mark(i, reset) returns true exactly
\* when reset + 120000 ms is still ahead of the clock, and otherwise false with
\* the record removed; once until = reset + 120000 ms is reached it returns
\* false, the record is removed and later calls return false until i is marked
\* again.
C7_MarkThenIsExhausted ==
    /\ [][MarkStoresUntil /\ ExpiredIsRemoved /\ StaysRecoveredUntilMarked]_vars
    /\ [][\A i \in PoolIndexes :
             (last.op = "mark" /\ last.arg = i /\ SeqIsExhausted(i)) =>
                /\ last'.flag = (now < last.resetMs + 120000)
                /\ KvHas(kvExhausted', i) = (now < last.resetMs + 120000)]_vars

\* C7 witness: a record marked with reset one minute after time 0 was found by
\* isExhausted at the very instant its until was reached: false, and removed.
C7_Witness ==
    /\ last.op = "isExhausted" /\ last.found /\ ~last.flag
    /\ last.until = TickMs + 120000
    /\ now = last.until
    /\ ~KvHas(kvExhausted, last.arg)

\* The number of credentials configured.
Configured == Cardinality({i \in 1..NumSlots : Len(env[i]) > 0})

\* The store holds the decimal of c under the cursor's key.
CursorIs(store, c) == KvHas(store, KV_CREDS_INDEX) /\ store[KV_CREDS_INDEX] = NumToString(c)

\* After index c is marked with reset r at time t: the first index of the
\* circular order from c that is not exhausted, and c when there is none.
ChosenAfterMark(store, c, r, n, t) ==
    LET exhausted(i) == IF i = c THEN t < r + 120000 ELSE ExhaustedAt(store, i, t)
        viable       == {k \in 1..n : ~exhausted(Circular(c, k, n))}
    IN  IF viable = {} THEN c ELSE Circular(c, Least(viable), n)

\* Cursor, current index and token after a rotation that chose index i.
Selected(i) ==
    /\ CursorIs(kvIndex', i)
    /\ credsIndex'[M] = i
    /\ accessToken'[M] = Null

\* The scenario of C1: three credentials, cursor 0, reset 60 s ahead, indices 1
\* and 2 not exhausted: index 0 is exhausted until now + 180 s, the cursor is 1.
C1_Scenario ==
    (/\ Configured = 3 /\ CursorIs(kvIndex, 0)
     /\ ~ExhaustedAt(kvExhausted, 1, now) /\ ~ExhaustedAt(kvExhausted, 2, now)
     /\ last'.op = "rotate" /\ last'.resetMs = now + 60000
     /\ SeqRotate("exhausted", TRUE, now + 60000, TRUE)) =>
        /\ KvHas(kvExhausted', 0) /\ ParseInt(kvExhausted'[0]) = now + 180000
        /\ CursorIs(kvIndex', 1)

\* C1 as stated: rotateCredentials("exhausted", reset) with persisted cursor c
\* leaves a record for c with until = reset + 120000 ms, the persisted cursor
\* and the current index on the index the scan from c chose, and no token.
C1_Original ==
    [][/\ \A c \in 0..(Configured - 1), r \in ResetTimes :
             (/\ CursorIs(kvIndex, c)
              /\ last'.op = "rotate" /\ last'.resetMs = r
              /\ SeqRotate("exhausted", TRUE, r, TRUE)) =>
                /\ KvHas(kvExhausted', c)
                /\ ParseInt(kvExhausted'[c]) = r + 120000
                /\ Selected(ChosenAfterMark(kvExhausted, c, r, Configured, now))
       /\ C1_Scenario]_vars

\* C1 amended: as stated, except that the record for c is gone again when its
\* until = reset + 120000 ms is not ahead of the clock and the scan came back
\* round to c (every other credential exhausted): the scan's cleanup removed it.
C1_RotateExhausted ==
    [][/\ \A c \in 0..(Configured - 1), r \in ResetTimes :
             (/\ CursorIs(kvIndex, c)
              /\ last'.op = "rotate" /\ last'.resetMs = r
              /\ SeqRotate("exhausted", TRUE, r, TRUE)) =>
                \E chosen \in {ChosenAfterMark(kvExhausted, c, r, Configured, now)} :
                \E swept \in {chosen = c /\ now >= r + 120000} :
                    /\ KvHas(kvExhausted', c) = ~swept
                    /\ ~swept => ParseInt(kvExhausted'[c]) = r + 120000
                    /\ Selected(chosen)
       /\ C1_Scenario]_vars

\* C1 witness: the scenario has happened.
C1_Witness ==
    /\ last.op = "rotate" /\ last.ok /\ last.reason = "exhausted" /\ last.hasReset
    /\ last.arg = 0 /\ last.resetMs = now + 60000
    /\ Configured = 3
    /\ KvHas(kvExhausted, 0) /\ kvExhausted[0] = NumToString(now + 180000)
    /\ CursorIs(kvIndex, 1) /\ credsIndex[M] = 1 /\ accessToken[M] = Null

\* C9: after any rotateCredentials call, in any interleaving, the persisted
\* cursor and the caller's current index are integers in [0, N-1], whatever
\* integer was stored under the cursor's key before; and the index a call reads
\* is clamped into [0, N-1] before it is marked or scanned from.
C9_CursorInRange ==
    /\ (last.op = "rotate" /\ last.ok) =>
          /\ credsIndex[last.proc] \in 0..(Len(credentials[last.proc]) - 1)
          /\ KvHas(kvIndex, KV_CREDS_INDEX)
          /\ ParseInt(kvIndex[KV_CREDS_INDEX]) \in 0..(Len(credentials[last.proc]) - 1)
    /\ \A p \in Procs :
          (pc[p] = "mark" \/ (pc[p] = "scan" /\ frame[p].attempts = 0)) =>
              credsIndex[p] \in 0..(Len(credentials[p]) - 1)

\* The call under way is a callEndpointWithRetry.
Retrying == call.fn = "callEndpointWithRetry"

\* Request q got an HTTP response that is not a 2xx.
NonOk(q) == ~q.threw /\ q.status # 200

\* C3: in callEndpointWithRetry, a non-2xx response that is neither a 401 on
\* attempt 1 nor a 500 on method "loadCodeAssist" ends the call at once with
\* the error of that response: it is the last request, and no backoff delay
\* follows its attempt.
C3_OtherStatusFailsAtOnce ==
    Retrying =>
        \A i \in 1..Len(call.requests) :
            LET q == call.requests[i]
            IN  (/\ NonOk(q)
                 /\ ~(q.status = 401 /\ q.attempt = 1)
                 /\ ~(q.status = 500 /\ call.method = "loadCodeAssist")) =>
                    /\ i = Len(call.requests)
                    /\ call.pc = "threw"
                    /\ call.error = ErrorOf("api", q.status, i)
                    /\ \A j \in 1..Len(call.delays) : call.delays[j].after # q.attempt

\* C4: when callEndpointWithRetry has failed and one of its requests got a
\* non-2xx response (a 401 included) or threw, the error it raises is not the
\* "All <n> attempts failed" placeholder.
C4_LastErrorNotPlaceholder ==
    (/\ Retrying
     /\ call.pc = "threw"
     /\ \E i \in 1..Len(call.requests) : call.requests[i].threw \/ NonOk(call.requests[i]))
        => call.error.kind # "generic"

\* C5: a callEndpoint issues at most two requests, the second one only after
\* a 401 to the first; after that 401 the in-memory token is null and the
\* cached token deleted, then it re-authenticates, and once that has succeeded
\* it issues one more request and no other; a call that returns returns the
\* body of its last request, which is a success; a second request answered by
\* a non-2xx (a 401 included) makes the call throw the error of that response.
C5_CallEndpointRetriesOnce ==
    call.fn = "callEndpoint" =>
        LET n == Len(call.requests)
        IN  /\ n <= 2
            /\ (n >= 1 /\ NonOk(call.requests[1]) /\ call.requests[1].status = 401) =>
                  \/ /\ call.pc = "reauth" /\ n = 1
                     /\ accessToken[M] = Null
                     /\ ~KvHas(kvToken, credsHash[M])
                  \/ call.isRetry /\ call.pc \in {"auth", "fetch"} /\ n = 1
                  \/ call.isRetry /\ call.pc \in {"returned", "threw"} /\ n = 2
                  \/ call.pc = "threw" /\ n = 1 /\ call.error.kind = "auth"
            /\ n = 2 => /\ NonOk(call.requests[1]) /\ call.requests[1].status = 401
                        /\ call.pc \in {"returned", "threw"}
            /\ call.pc = "returned" =>
                  /\ call.body = n
                  /\ ~call.requests[n].threw /\ call.requests[n].status = 200
            /\ (n = 2 /\ NonOk(call.requests[2])) =>
                  /\ call.pc = "threw"
                  /\ call.error = ErrorOf("api", call.requests[2].status, 2)

\* A callEndpoint got a 401 to its first request, re-authenticated, and
\* returned the body of its second request.
C5_Witness ==
    /\ call.fn = "callEndpoint" /\ call.pc = "returned"
    /\ Len(call.requests) = 2
    /\ call.requests[1].status = 401
    /\ call.body = 2

\* C6: initializeAuth called on an instance leaves the pool loaded from the
\* environment, and throws the "environment variable not set" error only if no
\* credential slot is configured.
C6_InitializeAuthLoadsPool ==
    (/\ call.fn = "initializeAuth"
     /\ call.pc \in {"returned", "threw"}
     /\ Configured >= 1) =>
        /\ credentials[M] = LoadCredentials(env)
        /\ call.error.kind # "env"

\* The statuses of the responses to the requests of the call, in order.
Statuses == [i \in 1..Len(call.requests) |-> call.requests[i].status]

\* The scenario of C10: maxRetries = 3, baseDelay = 1000, a 500 to attempts 1
\* and 2 of "loadCodeAssist", a success to attempt 3.
C10_Scenario ==
    /\ Retrying
    /\ call.method = "loadCodeAssist" /\ call.maxRetries = 3 /\ call.baseDelay = 1000
    /\ Statuses = <<500, 500, 200>>
    /\ \A i \in 1..3 : ~call.requests[i].threw /\ call.requests[i].attempt = i

\* C10: every backoff delay of a callEndpointWithRetry follows an attempt
\* k < maxRetries and lasts baseDelay * 2^(k-1) ms; no attempt is followed by
\* two delays; an attempt k < maxRetries whose request threw or got a 500 on
\* "loadCodeAssist" is followed by one delay and by attempt k+1; and in the
\* scenario the delays are 1000 ms then 2000 ms and the call returns the body
\* of the third request.
C10_BackoffDelays ==
    Retrying =>
        /\ \A j \in 1..Len(call.delays) :
              /\ call.delays[j].after \in 1..(call.maxRetries - 1)
              /\ call.delays[j].ms = call.baseDelay * 2 ^ (call.delays[j].after - 1)
              /\ \A i \in 1..Len(call.delays) :
                    call.delays[i].after = call.delays[j].after => i = j
        /\ \A i \in 1..Len(call.requests) :
              LET q == call.requests[i]
              IN  (/\ q.attempt < call.maxRetries
                   /\ q.threw \/ (q.status = 500 /\ call.method = "loadCodeAssist")) =>
                      /\ \E j \in 1..Len(call.delays) : call.delays[j].after = q.attempt
                      /\ call.attempt > q.attempt
        /\ C10_Scenario =>
              /\ call.delays = <<[after |-> 1, ms |-> 1000], [after |-> 2, ms |-> 2000]>>
              /\ call.pc = "returned"
              /\ call.body = 3

\* The scenario of C10 has run to its end: two delays taken, the third
\* request answered by a success.
C10_Witness ==
    /\ C10_Scenario
    /\ call.pc = "returned"
    /\ Len(call.delays) = 2

\* C11: in callEndpointWithRetry the 401 branch is entered only by the first
\* request of attempt 1, with the in-memory token null, the cached token
\* deleted and no delay taken; and once the re-authentication that follows has
\* set a token, attempt 2 starts with no delay taken.
C11_RefreshRetryOn401 ==
    /\ [](Retrying /\ call.pc = "reauth" =>
             /\ Len(call.requests) = 1 /\ call.attempt = 1
             /\ NonOk(call.requests[1]) /\ call.requests[1].status = 401
             /\ accessToken[M] = Null
             /\ ~KvHas(kvToken, credsHash[M])
             /\ call.delays = <<>>)
    /\ [][(Retrying /\ call.pc = "reauth" /\ accessToken'[M] # Null) =>
             /\ call'.pc = "auth" /\ call'.attempt = 2
             /\ call'.attempt <= call'.maxRetries
             /\ call'.delays = <<>>]_vars

\* The credential current on instance M.
CurrentCredential == credentials[M][credsIndex[M] + 1]

\* C12: a token initializeAuth has adopted from the cache or from the
\* credential's embedded fields expires more than TOKEN_BUFFER_TIME after the
\* clock of the call; an entry the get returned with no more than the buffer
\* left is not adopted; and an entry cached with 1000 s to live is not adopted
\* by a call made 200 s or less before its expiry.
C12_AdoptedTokenBeyondBuffer ==
    /\ [](last.op = "initializeAuth" =>
             /\ (last.ok /\ last.source \in {"cache", "embedded"}) =>
                    last.expiryDate - now > TOKEN_BUFFER_TIME
             /\ (last.cached # <<>>
                    /\ last.cached[1].expiry_date - now <= TOKEN_BUFFER_TIME) =>
                    last.source \in {"embedded", "refresh"})
    /\ [][(/\ last'.op = "initializeAuth"
           /\ KvHas(kvToken, credsHash'[M])
           /\ LET entry == JsonParse(kvToken[credsHash'[M]].value)
              IN  /\ entry.expiry_date = entry.cached_at + 1000000
                  /\ now >= entry.expiry_date - 200000)
              => last'.source # "cache"]_vars

\* An initializeAuth whose get returned an entry with no more than the buffer
\* left, and which refreshed instead.
C12_Witness ==
    /\ last.op = "initializeAuth" /\ last.ok
    /\ last.cached # <<>>
    /\ last.cached[1].expiry_date - now <= TOKEN_BUFFER_TIME
    /\ last.source = "refresh"

\* C13: no step of initializeAuth, callEndpoint, callEndpointWithRetry,
\* clearTokenCache or getCachedTokenInfo changes the persisted cursor, the
\* in-memory current index or an exhaustion record, and a getCachedTokenInfo
\* leaves the token cache as it was too.
C13_OnlyRotationMovesCursor ==
    [][/\ kvIndex' = kvIndex
       /\ kvExhausted' = kvExhausted
       /\ credsIndex' = credsIndex
       /\ last'.op = "getCachedTokenInfo" => kvToken' = kvToken]_vars

\* A getCachedTokenInfo has returned an entry, on a store that holds the
\* cursor and the expired exhaustion record of the current credential.
C13_Witness ==
    /\ last.op = "getCachedTokenInfo"
    /\ last.cached # <<>>
    /\ KvHas(kvIndex, KV_CREDS_INDEX)
    /\ IsExhaustedRead(kvExhausted, credsIndex[M], now).cleanup

\* C14: under every interleaving of isCredentialExhausted and
\* markCredentialExhausted, a record that leaves the store is one whose until
\* the clock has reached, and while the clock has not reached the until of the
\* last mark of an index, the store holds that until for the index, so that an
\* isCredentialExhausted of it returns true.
C14_CleanupRemovesOnlyExpired ==
    /\ [][\A i \in DOMAIN kvExhausted :
             ~KvHas(kvExhausted', i) => ~JsLt(now, ParseInt(kvExhausted[i]))]_vars
    /\ []((last.op = "mark" /\ now < last.resetMs + EXHAUSTION_SAFETY_BUFFER) =>
             IsExhaustedRead(kvExhausted, last.arg, now).exhausted)

\* A call of rotateCredentials on instance p that has read and clamped the
\* cursor and has not yet returned.
Rotating(p) == pc[p] \in {"mark", "scan", "cleanup", "writeIndex"}

InPool(p, i) == i \in 0..(Len(credentials[p]) - 1)

\* C15: rotateCredentials reads the cursor and writes it later with nothing
\* that ties the write to the read, so calls on two instances interleave
\* freely; whatever the interleaving, a call that read a cursor inside the pool
\* keeps its candidate inside the pool, makes at most N exhaustion checks, and
\* returns with its current index and the persisted cursor in [0, N-1].
C15_RacingRotationsStayInRange ==
    /\ [](\A p \in Procs : (Rotating(p) /\ InPool(p, credsIndex[p])) =>
              /\ InPool(p, frame[p].next)
              /\ frame[p].attempts <= Len(credentials[p])
              /\ pc[p] = "scan" => frame[p].attempts < Len(credentials[p]))
    /\ [][\A p \in Procs :
             (pc[p] = "writeIndex" /\ pc'[p] = "idle" /\ InPool(p, credsIndex[p])) =>
                /\ InPool(p, credsIndex'[p])
                /\ KvHas(kvIndex', KV_CREDS_INDEX)
                /\ ParseInt(kvIndex'[KV_CREDS_INDEX]) = credsIndex'[p]]_vars

\* Two calls read the same cursor and selected the same next index; the first
\* has written it and the second is about to write it again.
C15_Witness ==
    \E q \in Procs :
       /\ pc[q] = "writeIndex" /\ Len(credentials[q]) >= 2
       /\ last.op = "rotate" /\ last.ok /\ last.proc # q
       /\ last.arg = credsIndex[q] /\ InPool(q, credsIndex[q])
       /\ last.index = frame[q].next /\ last.index # last.arg
       /\ kvIndex[KV_CREDS_INDEX] = NumToString(last.index)

\* Two calls read the same cursor and selected different indexes; the cursor
\* holds the first call's write, which the second call's write replaces.
C15_LostUpdate ==
    \E q \in Procs :
       /\ pc[q] = "writeIndex"
       /\ last.op = "rotate" /\ last.ok /\ last.proc # q
       /\ last.arg = credsIndex[q] /\ InPool(q, credsIndex[q])
       /\ last.index # frame[q].next
       /\ kvIndex[KV_CREDS_INDEX] = NumToString(last.index)

\* The put of cacheTokenInKV is attempted for a token expiring at expiryDate.
PutAttempted(expiryDate, t) == ((expiryDate - t) \div 1000) - 300 > 0

\* C16: when the put of the write-through throws, initializeAuth still
\* returns normally with this.accessToken set to the token it adopted: the
\* credential's own token on the embedded path, the identity provider's on
\* the refresh path; the token entry is left as it was.
C16_WriteFailureSwallowed ==
    (/\ last.op = "initializeAuth" /\ ~last.writeOk
     /\ \/ last.source = "embedded"
        \/ last.source = "refresh" /\ last.idpOk)
        => /\ last.ok /\ last.error = NoError
           /\ accessToken[M] # Null
           /\ accessToken[M] = last.token
           /\ last.source = "embedded" =>
                 accessToken[M] = CurrentCredential.access_token
           /\ last.source = "refresh" => accessToken[M] = <<"refreshed", issued>>
           /\ KvGetToken(kvToken, credsHash[M], now) = last.cached

\* A refresh succeeded, the put of its write-through was attempted and threw.
C16_Witness ==
    /\ last.op = "initializeAuth" /\ ~last.writeOk /\ last.ok
    /\ last.source = "refresh" /\ PutAttempted(last.expiryDate, now)
    /\ accessToken[M] = <<"refreshed", issued>>
    /\ ~KvHas(kvToken, credsHash[M])

\* The same on the embedded path.
C16_WitnessEmbedded ==
    /\ last.op = "initializeAuth" /\ ~last.writeOk /\ last.ok
    /\ last.source = "embedded" /\ PutAttempted(last.expiryDate, now)
    /\ accessToken[M] = CurrentCredential.access_token
    /\ ~KvHas(kvToken, credsHash[M])

\* The step is an initializeAuth of the call under way that threw.
AuthenticationFails ==
    \/ call.pc = "auth" /\ call' # call /\ call'.pc # "fetch"
    \/ call.pc = "reauth" /\ call.fn = "callEndpoint" /\ call'.pc = "threw"
    \/ call.pc = "reauth" /\ call.fn = "callEndpointWithRetry"
          /\ call'.lastError # NoError

\* What the attempt of call c failed with: callEndpoint throws it, the loop
\* of callEndpointWithRetry keeps it as lastError.
AttemptError(c) == IF c.fn = "callEndpoint" THEN c.error ELSE c.lastError

\* The tokens initializeAuth can have set for the current credential: its
\* embedded token, or one the identity provider issued.
TokensOfCurrent ==
    {CurrentCredential.access_token} \cup {<<"refreshed", k>> : k \in 0..issued}

\* Every request sent carries a token, and a request is about to be sent only
\* with this.accessToken set by the initializeAuth that came before it.
RequestsCarryToken ==
    /\ \A k \in 1..Len(call.requests) : call.requests[k].token # Null
    /\ call.pc = "fetch" =>
          /\ credentials[M] # <<>>
          /\ accessToken[M] \in TokensOfCurrent
          /\ credsHash[M] = HashString(CurrentCredential.id_token)

ReadTimes(ttl) ==
    {now, now + ttl * 1000 - 1, now + ttl * 1000}
        \cup {now + k * StepMs : k \in 1..MaxSteps}

\* C18: cacheTokenInKV(token, expiry) with a store that takes the put writes
\* the entry under the current credential's hash with a TTL of
\* floor((expiry - now) / 1000) - 300 seconds, and writes nothing and throws
\* nothing when that TTL is not positive; a get of that hash before the TTL
\* has run out returns the token and the expiry_date written, and the token
\* initializeAuth adopts from the cache is the one stored.
C18_CacheRoundTrip ==
    /\ [][(last'.op = "cacheTokenInKV" /\ last'.writeOk) =>
            LET h   == credsHash[M]
                ttl == ((last'.expiryDate - now) \div 1000) - 300
            IN  /\ last'.ok /\ last'.error = NoError
                /\ \A k \in DOMAIN kvToken' \cup DOMAIN kvToken : k # h =>
                       KvHas(kvToken, k) /\ KvHas(kvToken', k) /\ kvToken'[k] = kvToken[k]
                /\ ttl <= 0 => kvToken' = kvToken
                /\ ttl > 0 =>
                      /\ KvHas(kvToken', h)
                      /\ kvToken'[h].ttlEnd = now + ttl * 1000
                      /\ \A t \in ReadTimes(ttl) :
                            KvGetToken(kvToken', h, t) =
                               IF t < now + ttl * 1000
                               THEN <<[access_token |-> last'.token,
                                       expiry_date |-> last'.expiryDate,
                                       cached_at |-> now]>>
                               ELSE <<>>]_vars
    /\ []((last.op = "initializeAuth" /\ last.source = "cache") =>
            /\ KvHas(kvToken, credsHash[M])
            /\ now < kvToken[credsHash[M]].ttlEnd
            /\ last.token = kvToken[credsHash[M]].value.access_token
            /\ NumToString(last.expiryDate) = kvToken[credsHash[M]].value.expiry_date)

\* The token handed to cacheTokenInKV at an earlier time of the clock is the
\* one initializeAuth reads back and adopts.
C18_Witness ==
    /\ last.op = "initializeAuth" /\ last.source = "cache"
    /\ last.token = <<"handed">> /\ accessToken[M] = <<"handed">>
    /\ last.cached # <<>> /\ last.cached[1].cached_at < now
    /\ last.cached[1].expiry_date = last.expiryDate

\* cacheTokenInKV was called with a TTL that is not positive and left the
\* store as it was.
C18_NoOpReached ==
    /\ last.op = "cacheTokenInKV" /\ last.writeOk
    /\ ((last.expiryDate - now) \div 1000) - 300 <= 0
    /\ last.expiryDate - now > TOKEN_BUFFER_TIME
    /\ ~KvHas(kvToken, credsHash[M])

\* No element of seq occurs twice.
Distinct(seq) == \A i, j \in 1..Len(seq) : seq[i] = seq[j] => i = j

\* The integers the clamp of rotateCredentials can hand to the scan of a pool
\* of n: none above n - 1.
StartIndexes(n) == (0 - NumSlots)..(n - 1)

\* C19: for every pool size N >= 1 and every start index,
\* getNextViableCredentialIndex stops after at most N calls of
\* isCredentialExhausted and calls it on no index twice; from a start index
\* in the pool it only checks indexes of the pool.
C19_ScanIsBounded ==
    /\ [](\A c \in StartIndexes(PoolSize) :
            LET r == GetNextViableCredentialIndex(kvExhausted, now, c, PoolSize)
            IN  /\ PoolSize >= 1
                /\ Len(r.visited) <= PoolSize
                /\ Len(r.visited) >= 1
                /\ Distinct(r.visited)
                /\ r.index = r.visited[Len(r.visited)]
                /\ c \in PoolIndexes =>
                      \A k \in 1..Len(r.visited) : r.visited[k] \in PoolIndexes)
    /\ [][\A c \in PoolIndexes :
            SeqScan(c) =>
               last'.index = GetNextViableCredentialIndex(kvExhausted, now, c,
                                                          PoolSize).index]_vars

\* A scan of a pool of three, all exhausted, from index 1: it checked 2, 0
\* and 1 and returned 1.
C19_Witness ==
    /\ last.op = "scan" /\ last.arg = 1 /\ last.index = 1
    /\ PoolSize = 3
    /\ GetNextViableCredentialIndex(kvExhausted, now, 1, PoolSize).visited = <<2, 0, 1>>

\* The get of the initializeAuth just made returned an entry valid beyond the
\* buffer.
CacheEntryValid ==
    /\ last'.cached # <<>>
    /\ last'.cached[1].expiry_date - now > TOKEN_BUFFER_TIME

EmbeddedValid == CurrentCredential.expiry_date - now > TOKEN_BUFFER_TIME

\* The token entry of the current credential now holds token and expiryDate.
EntryHolds(token, expiryDate) ==
    KvGetToken(kvToken', credsHash'[M], now) =
        <<[access_token |-> token, expiry_date |-> expiryDate, cached_at |-> now]>>

\* The first source of initializeAuth that is valid, and what is common to
\* the two statements of C20: the token adopted and the refreshes made.
ResolvedInOrder ==
    /\ credsHash'[M] = HashString(CurrentCredential.id_token)
    /\ CacheEntryValid =>
          /\ last'.ok /\ last'.source = "cache"
          /\ accessToken'[M] = last'.cached[1].access_token
          /\ kvToken' = kvToken
          /\ issued' = issued
    /\ (~CacheEntryValid /\ EmbeddedValid) =>
          /\ last'.ok /\ last'.source = "embedded"
          /\ accessToken'[M] = CurrentCredential.access_token
          /\ issued' = issued
    /\ (~CacheEntryValid /\ ~EmbeddedValid) =>
          /\ last'.source = "refresh"
          /\ last'.idpOk =>
                /\ last'.ok /\ issued' = issued + 1
                /\ accessToken'[M] = <<"refreshed", issued + 1>>
          /\ ~last'.idpOk =>
                /\ ~last'.ok /\ issued' = issued
                /\ accessToken'[M] = accessToken[M] /\ kvToken' = kvToken

\* C20 as stated: the token adopted from the credential or from a refresh
\* is written through to the cache whenever the store takes the put.
C20_Original ==
    [][(last'.op = "initializeAuth" /\ last'.writeOk) =>
          /\ ResolvedInOrder
          /\ (last'.ok /\ last'.source \in {"embedded", "refresh"}) =>
                EntryHolds(accessToken'[M], last'.expiryDate)]_vars

\* C20: initializeAuth takes the first valid source in the order cache
\* entry, embedded token, refresh: a cache entry valid beyond the buffer is
\* adopted with no put and no refresh; otherwise an embedded token valid
\* beyond the buffer is adopted with no refresh; otherwise one refresh is
\* made and its token adopted.  The embedded or refreshed token is written
\* through only if floor((expiry - now) / 1000) - 300 > 0 and the store
\* takes the put; otherwise the store is left as it was.
C20_ResolvesInFixedOrder ==
    [][last'.op = "initializeAuth" =>
          /\ ResolvedInOrder
          /\ (last'.ok /\ last'.source \in {"embedded", "refresh"}) =>
                IF last'.writeOk /\ PutAttempted(last'.expiryDate, now)
                THEN EntryHolds(accessToken'[M], last'.expiryDate)
                ELSE kvToken' = kvToken]_vars

\* The get returned an entry no longer valid beyond the buffer, the embedded
\* token was not valid either, and the one refresh made was adopted and
\* written through.
C20_Witness ==
    /\ last.op = "initializeAuth" /\ last.ok /\ last.source = "refresh"
    /\ last.cached # <<>>
    /\ last.cached[1].expiry_date - now <= TOKEN_BUFFER_TIME
    /\ CurrentCredential.expiry_date - now <= TOKEN_BUFFER_TIME
    /\ accessToken[M] = <<"refreshed", issued>>
    /\ KvGetToken(kvToken, credsHash[M], now) # <<>>
    /\ KvGetToken(kvToken, credsHash[M], now)[1].access_token = accessToken[M]

\* An embedded token valid beyond the buffer by half a second was adopted
\* and not written.
C20_NotWritten ==
    /\ last.op = "initializeAuth" /\ last.ok /\ last.writeOk
    /\ last.source = "embedded" /\ ~PutAttempted(last.expiryDate, now)
    /\ ~KvHas(kvToken, credsHash[M])

\* C21: in callEndpoint, the request that follows a 401 on the first request
\* carries a token the identity provider issued during the
\* re-authentication, and never the token the 401 rejected.
C21_RetryCarriesRefreshedToken ==
    (/\ call.fn = "callEndpoint" /\ Len(call.requests) = 2
     /\ NonOk(call.requests[1]) /\ call.requests[1].status = 401)
        => /\ call.requests[2].token # call.requests[1].token
           /\ call.requests[2].token = <<"refreshed", issued>>

StepsLeft(c) ==
    IF c.pc \in {"returned", "threw"} THEN 0
    ELSE 3 * (c.maxRetries - c.attempt)
            + (IF c.pc = "auth" THEN 3 ELSE IF c.pc = "fetch" THEN 2 ELSE 1)

\* C23: a call of callEndpointWithRetry returns or throws in the end and
\* sends at most maxRetries requests, at most one per attempt, whatever
\* upstream and the identity provider answer: every step of it brings it
\* nearer its end (StepsLeft is never negative and decreases), which it
\* reaches after at most 3 * maxRetries awaits; the attempt answered 401
\* counts among the maxRetries: the attempt after it is attempt 2, and there
\* is none when maxRetries is 1.
C23_RetryIsBounded ==
    /\ [](Retrying =>
            /\ Len(call.requests) <= call.maxRetries
            /\ \A k \in 1..Len(call.requests) :
                  /\ call.requests[k].attempt \in k..call.maxRetries
                  /\ k > 1 => call.requests[k - 1].attempt < call.requests[k].attempt
            /\ StepsLeft(call) >= 0
            /\ call.pc \in {"auth", "fetch", "reauth"} => call.attempt <= call.maxRetries)
    /\ [][(Retrying /\ call' # call) =>
            /\ call'.fn = call.fn /\ call'.maxRetries = call.maxRetries
            /\ StepsLeft(call') < StepsLeft(call)
            /\ call.pc = "reauth" =>
                  /\ call'.attempt = 2
                  /\ call.maxRetries = 1 => call'.pc = "threw"]_vars
    /\ Retrying ~> (call.pc \in {"returned", "threw"})

\* A call with maxRetries = 3 that is over: three requests, the first
\* answered 401.
C23_Witness ==
    /\ Retrying /\ call.maxRetries = 3 /\ call.pc = "threw"
    /\ Len(call.requests) = 3
    /\ NonOk(call.requests[1]) /\ call.requests[1].status = 401
    /\ call.requests[3].attempt = 3

\* The indexes of a pool of n other than c that are not exhausted at time t.
OthersViable(store, c, n, t) ==
    {i \in (0..(n - 1)) \ {c} : ~ExhaustedAt(store, i, t)}

\* C24: rotateCredentials("exhausted", reset) with reset + 120000 ms ahead
\* of the clock, on a cursor that reads as index c of the pool: if some
\* credential other than c is not exhausted, the new cursor is another index
\* than c, of a credential that is not exhausted; if every other credential
\* is exhausted (or there is no other), the cursor stays on c, which is now
\* exhausted itself.  The current index of the instance is the new cursor.
C24_RotationSkipsExhausted ==
    [][\A r \in ResetTimes :
          \E c \in {ClampIndex(SavedIndexStr(kvIndex, TRUE), Configured)} :
             (/\ last'.op = "rotate" /\ last'.resetMs = r
              /\ now < r + EXHAUSTION_SAFETY_BUFFER
              /\ c \in 0..(Configured - 1)
              /\ SeqRotate("exhausted", TRUE, r, TRUE)) =>
                \E others \in {OthersViable(kvExhausted, c, Configured, now)} :
                   /\ KvHas(kvIndex', KV_CREDS_INDEX)
                   /\ credsIndex'[M] = ParseInt(kvIndex'[KV_CREDS_INDEX])
                   /\ kvIndex'[KV_CREDS_INDEX] = NumToString(credsIndex'[M])
                   /\ ExhaustedAt(kvExhausted', c, now)
                   /\ others # {} =>
                         /\ credsIndex'[M] \in others
                         /\ ~ExhaustedAt(kvExhausted', credsIndex'[M], now)
                   /\ others = {} => credsIndex'[M] = c]_vars

\* A pool of three with cursor 2 and index 0 exhausted: the rotation marked
\* 2 and moved the cursor past 0 to 1.
C24_Witness ==
    /\ last.op = "rotate" /\ last.ok /\ last.reason = "exhausted" /\ last.hasReset
    /\ now < last.resetMs + EXHAUSTION_SAFETY_BUFFER
    /\ Configured = 3 /\ last.arg = 2
    /\ ExhaustedAt(kvExhausted, 0, now) /\ ExhaustedAt(kvExhausted, 2, now)
    /\ CursorIs(kvIndex, 1) /\ credsIndex[M] = 1

\* A pool of two, both exhausted after the mark: the cursor stayed on 1.
C24_StaysWhenAllExhausted ==
    /\ last.op = "rotate" /\ last.ok /\ last.reason = "exhausted" /\ last.hasReset
    /\ now < last.resetMs + EXHAUSTION_SAFETY_BUFFER
    /\ Configured = 2 /\ last.arg = 1
    /\ ExhaustedAt(kvExhausted, 0, now) /\ ExhaustedAt(kvExhausted, 1, now)
    /\ CursorIs(kvIndex, 1) /\ credsIndex[M] = 1

====
